---- MODULE Spec2Model ----
(***************************************************************************)
(* Dartboard layout and dart placement geometry                            *)
(* (src/utils/dartboard_layout.py, src/randomizers/throw/throw_randomizer) *)
(*                                                                         *)
(* Numbers are fixed-point with five decimal places: the Python float v is *)
(* the integer v * 10^5.  So a radius in metres 0.0159 is 1590, the same   *)
(* radius in millimetres 15.9 is 1590000, and an angle of 0.017 rad is     *)
(* 1700.  Arithmetic is exact on these values; IEEE-754 rounding of the    *)
(* last bit is not part of the model.                                      *)
(***************************************************************************)
EXTENDS Integers, Sequences, FiniteSets, TLC

VARIABLES
    client,             \* who owns the layout: "ThrowRandomizer" or "direct"
    r_tip,              \* DartboardLayout.r_tip (mm)
    invalid_intervals,  \* DartboardLayout.invalid_intervals, list of <<start, end>> (mm)
    call,               \* the last direct call of a layout method and its result
    pc,                 \* position inside ThrowRandomizer._randomize_transform
    sampled,            \* the (radius, angle) drawn from the rng for this dart
    radius,             \* local variable radius (m)
    angle,              \* local variable angle (rad)
    location,           \* obj.location, <<x, y, z>> (m)
    threads,            \* per thread: the call it is executing on the shared layout, with its locals
    config,             \* ThrowRandomizer.config: num_darts, allow_darts_outside_board, bouncer_probability
    template,           \* which of the template objects "Dart_Generator" and "Dart_K" the scene holds
    spawned_darts,      \* ThrowRandomizer.spawned_darts, the pool: list of Dart
    frame,              \* position inside ThrowRandomizer.randomize()
    labels              \* the "darts" list AnnotationManager.annotate wrote for the current frame

\* the state of the dart pool and of the per-frame loop
frames == <<config, template, spawned_darts, frame, labels>>

vars == <<client, r_tip, invalid_intervals, call, pc, sampled, radius, angle, location, threads,
          config, template, spawned_darts, frame, labels>>

(***************************************************************************)
(* Class constants of DartboardLayout (mm).                                *)
(***************************************************************************)
R_INNER_BULL == 635000
R_OUTER_BULL == 1590000
R_INNER_TREBLE == 9740000
R_OUTER_TREBLE == 10740000
R_INNER_DOUBLE == 16000000
R_OUTER_DOUBLE == 17000000

D_INNER_BULL_WIRE == 120000
D_OUTER_BULL_WIRE == 120000
D_TREBLE_WIRE == 100000
D_DOUBLE_WIRE == 100000

DEFAULT_R_TIP == 110000

\* ThrowRandomConfig.max_radius (m)
max_radius == 25000

\* math.pi, rounded to 3.1416 so that a twentieth of it is a whole number
MathPi == 314160

(***************************************************************************)
(* Bounds of the model.                                                    *)
(***************************************************************************)
\* tip radii tried at construction: 0, 4, 8, ... mm and the default
MaxTipK == 4
\* radii passed to validate_radius: k * 0.05 mm, -NegRadiusK <= k <= MaxRadiusK
NegRadiusK == 40
MaxRadiusK == 5020
\* angles passed to validate_angle: k-th AngleDiv-th of a half segment, |k| <= MaxAngleK
AngleDiv == 4
MaxAngleK == 200
\* radii passed to validate_angle besides the gate values: k * 10 mm, k <= MaxAngleRadiusK
MaxAngleRadiusK == 25
\* whole segments by which an angle is moved for a second call: 1 <= |k| <= MaxShiftK
MaxShiftK == 2
\* threads that call the methods of one shared layout
NumThreads == 2
\* resolution of rng.random() for the radius and for the angle
RadiusRngSteps == 250
AngleRngSteps == 160

TipRadii == {400000 * k : k \in 0..MaxTipK} \cup {DEFAULT_R_TIP}
RadiusInputs == {5 * k : k \in -NegRadiusK..MaxRadiusK}

Abs(x) == IF x < 0 THEN -x ELSE x
Min(a, b) == IF a <= b THEN a ELSE b

(***************************************************************************)
(* DartboardLayout._calculate_invalid_intervals                            *)
(***************************************************************************)
\* variant: the treble wire is taken on the outer side of the inner treble ring
calculate_invalid_intervals_swapped(rt) ==
    << <<R_INNER_BULL - rt, R_INNER_BULL + D_INNER_BULL_WIRE + rt>>,
       <<R_OUTER_BULL - rt, R_OUTER_BULL + D_OUTER_BULL_WIRE + rt>>,
       <<R_INNER_TREBLE - rt, R_INNER_TREBLE + D_TREBLE_WIRE + rt>>,
       <<R_OUTER_TREBLE - D_TREBLE_WIRE - rt, R_OUTER_TREBLE + rt>>,
       <<R_INNER_DOUBLE - D_DOUBLE_WIRE - rt, R_INNER_DOUBLE + rt>>,
       <<R_OUTER_DOUBLE - D_DOUBLE_WIRE - rt, R_OUTER_DOUBLE + rt>> >>

calculate_invalid_intervals(rt) ==
    LET rib == R_INNER_BULL
        rob == R_OUTER_BULL
        rit == R_INNER_TREBLE
        rot == R_OUTER_TREBLE
        rid == R_INNER_DOUBLE
        rod == R_OUTER_DOUBLE
        dib == D_INNER_BULL_WIRE
        dob == D_OUTER_BULL_WIRE
        dt == D_TREBLE_WIRE
        dd == D_DOUBLE_WIRE
    IN << <<rib - rt, rib + dib + rt>>,
          <<rob - rt, rob + dob + rt>>,
          <<rit - dt - rt, rit + rt>>,
          <<rot - dt - rt, rot + rt>>,
          <<rid - dd - rt, rid + rt>>,
          <<rod - dd - rt, rod + rt>> >>

(***************************************************************************)
(* DartboardLayout.validate_radius: the scan over the intervals.  snap is  *)
(* the body of the if, ScanIntervals the for loop with its break.          *)
(***************************************************************************)
\* variant: start also wins when both boundaries are equally near (<= for <)
snap_tie_start(r_mm, start, end) ==
    IF Abs(r_mm - start) <= Abs(r_mm - end) THEN start ELSE end

\* variant: the comparison is inverted, the farther boundary is taken
snap_farther(r_mm, start, end) ==
    IF Abs(r_mm - start) > Abs(r_mm - end) THEN start ELSE end

\* variant: the radius stops 0.01 mm short of the boundary
snap_short(r_mm, start, end) ==
    IF Abs(r_mm - start) < Abs(r_mm - end) THEN start + 1000 ELSE end - 1000

\* variant: the radius is nudged 0.5 mm towards the nearer boundary instead of set to it
snap_nudge(r_mm, start, end) ==
    IF Abs(r_mm - start) < Abs(r_mm - end) THEN r_mm - 50000 ELSE r_mm + 50000

snap(r_mm, start, end) ==
    LET dist_to_start == Abs(r_mm - start)
        dist_to_end == Abs(r_mm - end)
    IN IF dist_to_start < dist_to_end THEN start ELSE end

\* variant: the break is missing, later intervals are applied to the snapped value
RECURSIVE ScanIntervals_no_break(_, _, _)
ScanIntervals_no_break(intervals, i, r_mm) ==
    IF i > Len(intervals) THEN r_mm
    ELSE IF intervals[i][1] < r_mm /\ r_mm < intervals[i][2]
         THEN ScanIntervals_no_break(intervals, i + 1,
                  IF Abs(r_mm - intervals[i][1]) < Abs(r_mm - intervals[i][2])
                  THEN intervals[i][1] ELSE intervals[i][2])
         ELSE ScanIntervals_no_break(intervals, i + 1, r_mm)

RECURSIVE ScanIntervals(_, _, _)
ScanIntervals(intervals, i, r_mm) ==
    IF i > Len(intervals) THEN r_mm
    ELSE LET start == intervals[i][1]
             end == intervals[i][2]
         IN IF start < r_mm /\ r_mm < end
            THEN snap(r_mm, start, end)
            ELSE ScanIntervals(intervals, i + 1, r_mm)

\* variant: a negative radius is clamped to the board centre before the scan
validate_radius_clamped(intervals, radius_m) ==
    LET r_mm == (IF radius_m < 0 THEN 0 ELSE radius_m) * 1000
    IN ScanIntervals(intervals, 1, r_mm) \div 1000

validate_radius(intervals, radius_m) ==
    LET r_mm == radius_m * 1000
    IN ScanIntervals(intervals, 1, r_mm) \div 1000

(***************************************************************************)
(* math.sin, math.cos and math.asin in fixed point.  The sine of an angle  *)
(* in [0, pi/2] is its Taylor polynomial at four decimal places; the       *)
(* arcsine is the largest angle whose sine does not exceed the argument.   *)
(***************************************************************************)
SinPoly(t) ==
    LET t2 == (t * t) \div 10000
        t3 == (t * t2) \div 60000
        t5 == (t3 * t2) \div 200000
        t7 == (t5 * t2) \div 420000
        t9 == (t7 * t2) \div 720000
        t11 == (t9 * t2) \div 1100000
    IN t - t3 + t5 - t7 + t9 - t11

\* sine of an angle given with five decimal places, result with four
sin(a) ==
    LET t == (a % (2 * MathPi)) \div 10
        p == MathPi \div 10
    IN IF 2 * t <= p THEN SinPoly(t)
       ELSE IF t <= p THEN SinPoly(p - t)
       ELSE IF 2 * t <= 3 * p THEN -SinPoly(t - p)
       ELSE -SinPoly(2 * p - t)

cos(a) == sin(a + MathPi \div 2)

RECURSIVE AsinSearch(_, _, _)
AsinSearch(x, lo, hi) ==
    IF lo >= hi THEN lo
    ELSE LET mid == (lo + hi + 1) \div 2
         IN IF SinPoly(mid) <= x
            THEN AsinSearch(x, mid, hi)
            ELSE AsinSearch(x, lo, mid - 1)

\* math.asin(num / den) for 0 <= num < den, result with five decimal places
asin(num, den) ==
    LET x == ((num \div 100) * 10000) \div (den \div 100)
    IN 10 * AsinSearch(x, 0, MathPi \div 20)

(***************************************************************************)
(* DartboardLayout.validate_angle                                          *)
(***************************************************************************)
segment_angle == (2 * MathPi) \div 20
half_segment == segment_angle \div 2

\* margin = 0.6mm (half wire) + r_tip
margin_mm(rt) == 60000 + rt

\* variant: the safety check on the margin is missing
margin_guard_absent(rt, r_mm) == FALSE

\* the safety check before the arcsine: margin_mm >= r_mm
margin_guard(rt, r_mm) == margin_mm(rt) >= r_mm

\* math.asin(num / den) raises: division by zero, or an argument outside [-1, 1]
asin_raises(num, den) == den = 0 \/ num > den \/ num < -den

\* variant: the gate is the open interval
in_gate_open(r_mm) == 1580000 < r_mm /\ r_mm < 18000000

\* the gate on the radius: 15.8 <= r_mm <= 180.0
in_gate(r_mm) == 1580000 <= r_mm /\ r_mm <= 18000000

\* variant: the two push directions are exchanged
validate_angle_wrong_push(rt, radius_m, angle_rad) ==
    LET r_mm == radius_m * 1000
    IN IF ~(1580000 <= r_mm /\ r_mm <= 18000000) THEN angle_rad
       ELSE IF 60000 + rt >= r_mm THEN angle_rad
       ELSE LET dtheta == asin(60000 + rt, r_mm)
                angle_mod == (angle_rad + half_segment) % segment_angle
                dist_to_wire == Min(angle_mod, segment_angle - angle_mod)
            IN IF dist_to_wire < dtheta
               THEN IF angle_mod < half_segment
                    THEN angle_rad - (dtheta - dist_to_wire)
                    ELSE angle_rad + (dtheta - dist_to_wire)
               ELSE angle_rad

\* variant: the shifted angle, not the original one, is corrected and returned
validate_angle_shift_leaks(rt, radius_m, angle_rad) ==
    LET r_mm == radius_m * 1000
    IN IF ~(1580000 <= r_mm /\ r_mm <= 18000000) THEN angle_rad
       ELSE IF 60000 + rt >= r_mm THEN angle_rad
       ELSE LET dtheta == asin(60000 + rt, r_mm)
                angle_shifted == angle_rad + half_segment
                angle_mod == angle_shifted % segment_angle
                dist_to_wire == Min(angle_mod, segment_angle - angle_mod)
            IN IF dist_to_wire < dtheta
               THEN IF angle_mod < half_segment
                    THEN angle_shifted + (dtheta - dist_to_wire)
                    ELSE angle_shifted - (dtheta - dist_to_wire)
               ELSE angle_rad

\* variant: the returned angle is normalised to [0, 2*pi)
validate_angle_normalised(rt, radius_m, angle_rad) ==
    LET r_mm == radius_m * 1000
    IN IF ~(1580000 <= r_mm /\ r_mm <= 18000000) THEN angle_rad
       ELSE IF 60000 + rt >= r_mm THEN angle_rad
       ELSE LET dtheta == asin(60000 + rt, r_mm)
                angle_mod == (angle_rad + half_segment) % segment_angle
                dist_to_wire == Min(angle_mod, segment_angle - angle_mod)
            IN IF dist_to_wire < dtheta
               THEN IF angle_mod < half_segment
                    THEN (angle_rad + (dtheta - dist_to_wire)) % (2 * MathPi)
                    ELSE (angle_rad - (dtheta - dist_to_wire)) % (2 * MathPi)
               ELSE angle_rad % (2 * MathPi)

validate_angle(rt, radius_m, angle_rad) ==
    LET r_mm == radius_m * 1000
    IN IF ~in_gate(r_mm) THEN angle_rad
       ELSE IF margin_guard(rt, r_mm) THEN angle_rad
       ELSE LET dtheta == asin(margin_mm(rt), r_mm)
                angle_shifted == angle_rad + half_segment
                angle_mod == angle_shifted % segment_angle
                dist_to_wire == Min(angle_mod, segment_angle - angle_mod)
                correction == dtheta - dist_to_wire
            IN IF dist_to_wire < dtheta
               THEN IF angle_mod < half_segment
                    THEN angle_rad + correction
                    ELSE angle_rad - correction
               ELSE angle_rad

\* validate_angle reaches the arcsine and the arcsine raises an exception
validate_angle_raises(rt, radius_m) ==
    LET r_mm == radius_m * 1000
    IN /\ in_gate(r_mm)
       /\ ~margin_guard(rt, r_mm)
       /\ asin_raises(margin_mm(rt), r_mm)

(***************************************************************************)
(* Inputs of the direct calls.                                             *)
(***************************************************************************)
AngleInputs == {(k * half_segment) \div AngleDiv : k \in -MaxAngleK..MaxAngleK}

\* every 10 mm, the two ends of the gate, and the radius equal to the margin
AngleRadii(rt) ==
    {1000 * k : k \in 0..MaxAngleRadiusK}
    \cup {1580 + d : d \in {-5, 0, 5}}
    \cup {18000 + d : d \in {-5, 0, 5}}
    \cup {margin_mm(rt) \div 1000 + d : d \in {-5, 0, 5}}

NoCall == [op |-> "none", radius_m |-> 0, angle_rad |-> 0, result |-> 0, reapplied |-> FALSE, again |-> 0,
           shift |-> 0, raised |-> FALSE]
NoLocation == <<0, 0, 0>>

Threads == 1..NumThreads
IdleThread == [pc |-> "idle", op |-> "none", radius_m |-> 0, angle_rad |-> 0,
               r_mm |-> 0, i |-> 0, dtheta |-> 0, result |-> 0]

(***************************************************************************)
(* The dart pool of ThrowRandomizer.  A Dart is its root object (with the  *)
(* children, which share its visibility), its k-point when the template    *)
(* "Dart_K" was found, and the cached is_visible.  current_radius and draw *)
(* keep what the visibility rules of the last frame read: the length of    *)
(* location.xy and the bouncer draw (NoDraw when none was taken);          *)
(* was_hidden and used keep whether the dart was hidden when the frame     *)
(* reached it and whether it was ever randomized.                          *)
(***************************************************************************)
\* most darts a configuration asks for
MaxDarts == 2

\* ThrowRandomConfig() as the dataclass defaults set it
DefaultConfig == [num_darts |-> 3, allow_darts_outside_board |-> FALSE, bouncer_probability |-> 0]

\* the configurations the panel can set: probability 0.0 or 0.5
Configs ==
    [num_darts : 0..MaxDarts, allow_darts_outside_board : BOOLEAN, bouncer_probability : {0, 50000}]

NoDraw == -1
\* no list has been written for the frame yet
NoLabels == [written |-> FALSE, darts |-> <<>>]
IdleFrame == [pc |-> "idle", i |-> 0, mismatch |-> FALSE]

\* Dart(new_dart_root) with the k-point copied from the template, both visible
NewDart(has_k) ==
    [k_point |-> has_k, is_visible |-> TRUE, hide_render |-> FALSE, k_hide_render |-> FALSE,
     location |-> NoLocation, k_location |-> NoLocation,
     current_radius |-> 0, draw |-> NoDraw, was_hidden |-> FALSE, used |-> FALSE]

\* variant: the method returns before it clears the lists
clear_existing_darts_returns_early(darts) == darts

\* ThrowRandomizer._clear_existing_darts: the objects are removed, both lists cleared
clear_existing_darts(darts) == <<>>

\* ThrowRandomizer._spawn_dart_pool: nothing without the template dart, else
\* config.num_darts new darts are appended, each with a k-point if "Dart_K" exists
spawn_dart_pool(darts, cfg, tpl) ==
    IF ~tpl.dart THEN darts
    ELSE darts \o [i \in 1..cfg.num_darts |-> NewDart(tpl.k)]

\* Dart.set_visibility: is_visible, the hierarchy below root, and the k-point if any
set_visibility(dart, visible) ==
    [dart EXCEPT !.is_visible = visible,
                 !.hide_render = ~visible,
                 !.k_hide_render = IF dart.k_point THEN ~visible ELSE dart.k_hide_render]

(***************************************************************************)
(* Construction.  ThrowRandomizer.__init__ builds DartboardLayout() with   *)
(* the default tip radius; a direct user may pass any tip radius.          *)
(***************************************************************************)
Init ==
    /\ client \in {"ThrowRandomizer", "direct"}
    /\ r_tip \in (IF client = "ThrowRandomizer" THEN {DEFAULT_R_TIP} ELSE TipRadii)
    /\ invalid_intervals = calculate_invalid_intervals(r_tip)
    /\ call = NoCall
    /\ pc = "start"
    /\ sampled = <<0, 0>>
    /\ radius = 0
    /\ angle = 0
    /\ location = NoLocation
    /\ threads = [t \in Threads |-> IdleThread]
    /\ config = DefaultConfig
    /\ template = [dart |-> TRUE, k |-> TRUE]
    /\ spawned_darts = spawn_dart_pool(<<>>, config, template)
    /\ frame = IdleFrame
    /\ labels = NoLabels

(***************************************************************************)
(* Direct calls of the two methods.                                        *)
(***************************************************************************)
\* variant: the intervals are consumed from the stored list while they are scanned
CallValidateRadius_consuming ==
    /\ client = "direct"
    /\ call.op = "none"
    /\ \E radius_m \in RadiusInputs :
          call' = [op |-> "validate_radius", radius_m |-> radius_m, angle_rad |-> 0,
                   result |-> validate_radius(invalid_intervals, radius_m),
                   reapplied |-> FALSE, again |-> 0, shift |-> 0, raised |-> FALSE]
    /\ invalid_intervals' = IF invalid_intervals = <<>> THEN <<>> ELSE Tail(invalid_intervals)
    /\ UNCHANGED <<frames, threads, client, r_tip, pc, sampled, radius, angle, location>>

CallValidateRadius ==
    /\ client = "direct"
    /\ call.op = "none"
    /\ \E radius_m \in RadiusInputs :
          call' = [op |-> "validate_radius", radius_m |-> radius_m, angle_rad |-> 0,
                   result |-> validate_radius(invalid_intervals, radius_m),
                   reapplied |-> FALSE, again |-> 0, shift |-> 0, raised |-> FALSE]
    /\ UNCHANGED <<frames, threads, client, r_tip, invalid_intervals, pc, sampled, radius, angle, location>>

\* the value a call returned is passed to validate_radius again
ReapplyValidateRadius ==
    /\ client = "direct"
    /\ call.op = "validate_radius"
    /\ ~call.reapplied
    /\ call' = [call EXCEPT !.again = validate_radius(invalid_intervals, call.result),
                            !.reapplied = TRUE]
    /\ UNCHANGED <<frames, threads, client, r_tip, invalid_intervals, pc, sampled, radius, angle, location>>

CallValidateAngle ==
    /\ client = "direct"
    /\ call.op = "none"
    /\ \E radius_m \in AngleRadii(r_tip), angle_rad \in AngleInputs :
          call' = [op |-> "validate_angle", radius_m |-> radius_m, angle_rad |-> angle_rad,
                   result |-> validate_angle(r_tip, radius_m, angle_rad),
                   reapplied |-> FALSE, again |-> 0, shift |-> 0,
                   raised |-> validate_angle_raises(r_tip, radius_m)]
    /\ UNCHANGED <<frames, threads, client, r_tip, invalid_intervals, pc, sampled, radius, angle, location>>

\* the same radius is validated with the angle moved by k whole segments
ShiftedValidateAngle ==
    /\ client = "direct"
    /\ call.op = "validate_angle"
    /\ ~call.reapplied
    /\ \E k \in (-MaxShiftK..MaxShiftK) \ {0} :
          call' = [call EXCEPT
                      !.shift = k,
                      !.again = validate_angle(r_tip, call.radius_m,
                                               call.angle_rad + k * segment_angle),
                      !.reapplied = TRUE]
    /\ UNCHANGED <<frames, threads, client, r_tip, invalid_intervals, pc, sampled, radius, angle, location>>

\* the angle a call returned is passed to validate_angle again, with the same radius
ReapplyValidateAngle ==
    /\ client = "direct"
    /\ call.op = "validate_angle"
    /\ ~call.reapplied
    /\ call' = [call EXCEPT !.op = "validate_angle_again",
                            !.again = validate_angle(r_tip, call.radius_m, call.result),
                            !.reapplied = TRUE]
    /\ UNCHANGED <<frames, threads, client, r_tip, invalid_intervals, pc, sampled, radius, angle, location>>

\* the caller drops the returned value
Return ==
    /\ client = "direct"
    /\ call.op # "none"
    /\ call' = NoCall
    /\ UNCHANGED <<frames, threads, client, r_tip, invalid_intervals, pc, sampled, radius, angle, location>>

(***************************************************************************)
(* ThrowRandomizer._randomize_transform, one step per statement.           *)
(***************************************************************************)
\* angle = rng.random() * 2 * pi ; radius = rng.random() * max_radius
Sample ==
    /\ client = "ThrowRandomizer"
    /\ pc = "start"
    /\ \E u \in 0..(AngleRngSteps - 1), v \in 0..(RadiusRngSteps - 1) :
          /\ angle' = (u * 2 * MathPi) \div AngleRngSteps
          /\ radius' = (v * max_radius) \div RadiusRngSteps
          /\ sampled' = <<radius', angle'>>
    /\ location' = NoLocation
    /\ pc' = "sampled"
    /\ UNCHANGED <<frames, threads, client, r_tip, invalid_intervals, call>>

\* variant: the value returned by validate_radius is not assigned to radius
StepValidateRadius_unassigned ==
    /\ pc = "sampled"
    /\ radius' = radius
    /\ pc' = "radius_validated"
    /\ UNCHANGED <<frames, threads, client, r_tip, invalid_intervals, call, sampled, angle, location>>

\* radius = self.board_layout.validate_radius(radius)
StepValidateRadius ==
    /\ pc = "sampled"
    /\ radius' = validate_radius(invalid_intervals, radius)
    /\ pc' = "radius_validated"
    /\ UNCHANGED <<frames, threads, client, r_tip, invalid_intervals, call, sampled, angle, location>>

\* variant: validate_angle is given the sampled radius, not the corrected one
StepValidateAngle_sampled_radius ==
    /\ pc = "radius_validated"
    /\ angle' = validate_angle(r_tip, sampled[1], angle)
    /\ pc' = "angle_validated"
    /\ UNCHANGED <<frames, threads, client, r_tip, invalid_intervals, call, sampled, radius, location>>

\* angle = self.board_layout.validate_angle(radius, angle)
StepValidateAngle ==
    /\ pc = "radius_validated"
    /\ angle' = validate_angle(r_tip, radius, angle)
    /\ pc' = "angle_validated"
    /\ UNCHANGED <<frames, threads, client, r_tip, invalid_intervals, call, sampled, radius, location>>

\* x = radius * cos(angle) ; y = radius * sin(angle) ; z = 0 ; obj.location = (x, y, z)
Place ==
    /\ pc = "angle_validated"
    /\ location' = <<(radius * cos(angle)) \div 10000, (radius * sin(angle)) \div 10000, 0>>
    /\ pc' = "placed"
    /\ UNCHANGED <<frames, threads, client, r_tip, invalid_intervals, call, sampled, radius, angle>>

\* the function returns, its locals are gone, and the loop of randomize() takes the next dart
NextDart ==
    /\ pc = "placed"
    /\ pc' = "start"
    /\ sampled' = <<0, 0>>
    /\ radius' = 0
    /\ angle' = 0
    /\ location' = NoLocation
    /\ UNCHANGED <<frames, threads, client, r_tip, invalid_intervals, call>>

Next ==
    \/ CallValidateRadius
    \/ ReapplyValidateRadius
    \/ CallValidateAngle
    \/ ShiftedValidateAngle
    \/ ReapplyValidateAngle
    \/ Sample
    \/ StepValidateRadius
    \/ StepValidateAngle
    \/ Place
    \/ NextDart
    \/ Return

Spec == Init /\ [][Next]_vars

(***************************************************************************)
(* Several threads calling validate_radius and validate_angle on one       *)
(* shared DartboardLayout.  A thread runs one statement at a time; r_mm,   *)
(* the loop position i and dtheta are locals of its frame, self.r_tip and  *)
(* self.invalid_intervals are read from the shared object when the         *)
(* statement that uses them runs.                                          *)
(***************************************************************************)
ThreadTipRadii == {rt \in TipRadii : rt <= 800000}
ThreadRadiusInputs == {1200, 1650, 16000}
ThreadAngleInputs == {<<1820, 15708>>, <<10000, -15000>>, <<20000, 15708>>}

InitThreads ==
    /\ client = "threads"
    /\ r_tip \in ThreadTipRadii
    /\ invalid_intervals = calculate_invalid_intervals(r_tip)
    /\ call = NoCall
    /\ pc = "start"
    /\ sampled = <<0, 0>>
    /\ radius = 0
    /\ angle = 0
    /\ location = NoLocation
    /\ threads = [t \in Threads |-> IdleThread]
    /\ config = DefaultConfig
    /\ template = [dart |-> TRUE, k |-> TRUE]
    /\ spawned_darts = spawn_dart_pool(<<>>, config, template)
    /\ frame = IdleFrame
    /\ labels = NoLabels

\* validate_radius is entered: r_mm = radius_m * 1000.0
ThreadCallRadius(t) ==
    /\ threads[t].pc = "idle"
    /\ \E radius_m \in ThreadRadiusInputs :
          threads' = [threads EXCEPT ![t] =
                         [IdleThread EXCEPT !.pc = "scan", !.op = "validate_radius",
                                            !.radius_m = radius_m,
                                            !.r_mm = radius_m * 1000, !.i = 1]]
    /\ UNCHANGED <<frames, client, r_tip, invalid_intervals, call, pc, sampled, radius, angle, location>>

\* variant: the intervals are popped from the shared list while they are scanned
ThreadScan_consuming(t) ==
    /\ threads[t].pc = "scan"
    /\ LET th == threads[t]
       IN IF invalid_intervals = <<>>
          THEN /\ threads' = [threads EXCEPT ![t].pc = "return"]
               /\ UNCHANGED invalid_intervals
          ELSE /\ invalid_intervals' = Tail(invalid_intervals)
               /\ LET start == Head(invalid_intervals)[1]
                      end == Head(invalid_intervals)[2]
                  IN IF start < th.r_mm /\ th.r_mm < end
                     THEN threads' = [threads EXCEPT ![t].r_mm = snap(th.r_mm, start, end),
                                                     ![t].pc = "return"]
                     ELSE threads' = [threads EXCEPT ![t].i = th.i + 1]
    /\ UNCHANGED <<frames, client, r_tip, call, pc, sampled, radius, angle, location>>

\* one turn of: for start, end in self.invalid_intervals
ThreadScan(t) ==
    /\ threads[t].pc = "scan"
    /\ LET th == threads[t]
       IN IF th.i > Len(invalid_intervals)
          THEN threads' = [threads EXCEPT ![t].pc = "return"]
          ELSE LET start == invalid_intervals[th.i][1]
                   end == invalid_intervals[th.i][2]
               IN IF start < th.r_mm /\ th.r_mm < end
                  THEN threads' = [threads EXCEPT ![t].r_mm = snap(th.r_mm, start, end),
                                                  ![t].pc = "return"]
                  ELSE threads' = [threads EXCEPT ![t].i = th.i + 1]
    /\ UNCHANGED <<frames, client, r_tip, invalid_intervals, call, pc, sampled, radius, angle, location>>

\* return r_mm / 1000.0
ThreadReturnRadius(t) ==
    /\ threads[t].pc = "return"
    /\ threads' = [threads EXCEPT ![t] =
                       [IdleThread EXCEPT !.pc = "done", !.op = "validate_radius",
                                          !.radius_m = threads[t].radius_m,
                                          !.result = threads[t].r_mm \div 1000]]
    /\ UNCHANGED <<frames, client, r_tip, invalid_intervals, call, pc, sampled, radius, angle, location>>

\* validate_angle is entered: r_mm = radius_m * 1000.0
ThreadCallAngle(t) ==
    /\ threads[t].pc = "idle"
    /\ \E args \in ThreadAngleInputs :
          threads' = [threads EXCEPT ![t] =
                         [IdleThread EXCEPT !.pc = "gate", !.op = "validate_angle",
                                            !.radius_m = args[1], !.angle_rad = args[2],
                                            !.r_mm = args[1] * 1000]]
    /\ UNCHANGED <<frames, client, r_tip, invalid_intervals, call, pc, sampled, radius, angle, location>>

\* the result of a finished validate_angle call of thread t
AngleDone(t, value) ==
    [IdleThread EXCEPT !.pc = "done", !.op = "validate_angle",
                       !.radius_m = threads[t].radius_m,
                       !.angle_rad = threads[t].angle_rad, !.result = value]

\* if not (15.8 <= r_mm <= 180.0): return angle_rad
ThreadGate(t) ==
    /\ threads[t].pc = "gate"
    /\ IF ~in_gate(threads[t].r_mm)
       THEN threads' = [threads EXCEPT ![t] = AngleDone(t, threads[t].angle_rad)]
       ELSE threads' = [threads EXCEPT ![t].pc = "margin"]
    /\ UNCHANGED <<frames, client, r_tip, invalid_intervals, call, pc, sampled, radius, angle, location>>

\* margin_mm = 0.6 + self.r_tip ; the safety check ; dtheta = asin(margin_mm / r_mm)
ThreadMargin(t) ==
    /\ threads[t].pc = "margin"
    /\ IF margin_guard(r_tip, threads[t].r_mm)
       THEN threads' = [threads EXCEPT ![t] = AngleDone(t, threads[t].angle_rad)]
       ELSE threads' = [threads EXCEPT ![t].pc = "wire",
                                       ![t].dtheta = asin(margin_mm(r_tip), threads[t].r_mm)]
    /\ UNCHANGED <<frames, client, r_tip, invalid_intervals, call, pc, sampled, radius, angle, location>>

\* the distance to the nearer wire and the correction
ThreadWire(t) ==
    /\ threads[t].pc = "wire"
    /\ LET th == threads[t]
           angle_mod == (th.angle_rad + half_segment) % segment_angle
           dist_to_wire == Min(angle_mod, segment_angle - angle_mod)
           correction == th.dtheta - dist_to_wire
       IN threads' = [threads EXCEPT ![t] =
                         AngleDone(t, IF dist_to_wire < th.dtheta
                                      THEN IF angle_mod < half_segment
                                           THEN th.angle_rad + correction
                                           ELSE th.angle_rad - correction
                                      ELSE th.angle_rad)]
    /\ UNCHANGED <<frames, client, r_tip, invalid_intervals, call, pc, sampled, radius, angle, location>>

\* the caller of thread t takes the value, the thread is free for its next call
ThreadFinish(t) ==
    /\ threads[t].pc = "done"
    /\ threads' = [threads EXCEPT ![t] = IdleThread]
    /\ UNCHANGED <<frames, client, r_tip, invalid_intervals, call, pc, sampled, radius, angle, location>>

NextThreads ==
    \E t \in Threads :
        \/ ThreadCallRadius(t)
        \/ ThreadScan(t)
        \/ ThreadReturnRadius(t)
        \/ ThreadCallAngle(t)
        \/ ThreadGate(t)
        \/ ThreadMargin(t)
        \/ ThreadWire(t)
        \/ ThreadFinish(t)

SpecThreads == InitThreads /\ [][NextThreads]_vars

(***************************************************************************)
(* ThrowRandomizer.randomize() frame by frame, and AnnotationManager       *)
(* .annotate after it.  A frame is one call of randomize(); the           *)
(* configuration is replaced between calls only, and the list of           *)
(* annotated darts belongs to the frame, so a new call starts without one. *)
(***************************************************************************)
\* what the rng gives _randomize_transform for one dart: <<radius, angle>>; a radius
\* inside the outer-bull wire zone, one on the double wire, 0.225 m exactly, just
\* above it, and one well beyond the board
ThrowDraws == {<<1590, 47124>>, <<17000, 47124>>, <<22500, 0>>, <<22505, 0>>, <<24000, 47124>>}
\* what rng.random() gives the bouncer rule
BouncerDraws == {0, 60000}

RECURSIVE SqrtSearch(_, _, _)
SqrtSearch(n, lo, hi) ==
    IF lo >= hi THEN lo
    ELSE LET mid == (lo + hi + 1) \div 2
         IN IF mid * mid <= n
            THEN SqrtSearch(n, mid, hi)
            ELSE SqrtSearch(n, lo, mid - 1)

\* dart.root.location.xy.length
XYLength(loc) == SqrtSearch(loc[1] * loc[1] + loc[2] * loc[2], 0, 40000)

\* _randomize_transform: the location given to the root for the draw <<radius, angle>>
transform_location(draw) ==
    LET r == validate_radius(invalid_intervals, draw[1])
        a == validate_angle(r_tip, r, draw[2])
    IN <<(r * cos(a)) \div 10000, (r * sin(a)) \div 10000, 0>>

\* variant: the reset at the start of the loop body is missing
reset_visibility_missing(dart) == dart

\* dart.set_visibility(True) at the start of the loop body
reset_visibility(dart) == set_visibility(dart, TRUE)

\* the visibility logic: rule 1 (outside the board), then rule 2 (bouncer) only
\* if rule 1 did not hide and the probability is positive
should_hide(cfg, current_radius, u) ==
    LET rule1 == current_radius > 22500 /\ ~cfg.allow_darts_outside_board
        rule2 == ~rule1 /\ cfg.bouncer_probability > 0 /\ u < cfg.bouncer_probability
    IN rule1 \/ rule2

\* the bouncer rule reads the rng: rule 1 did not hide and the probability is positive
takes_draw(cfg, current_radius) ==
    /\ ~(current_radius > 22500 /\ ~cfg.allow_darts_outside_board)
    /\ cfg.bouncer_probability > 0

\* the k-point is moved to the surface position, then the dart is moved into the
\* board along its own axis: location += rotation @ (0, 0, -embed_depth)
embed(dart) ==
    IF dart.k_point
    THEN [dart EXCEPT !.k_location = dart.location,
                      !.location = <<dart.location[1] - 300, dart.location[2] + 400,
                                     dart.location[3] - 1200>>]
    ELSE dart

\* the body of the loop of randomize() for one dart
randomize_dart(dart, cfg, draw, u) ==
    LET d1 == reset_visibility(dart)
        loc == transform_location(draw)
        current_radius == XYLength(loc)
        d2 == [d1 EXCEPT !.location = loc,
                         !.current_radius = current_radius,
                         !.draw = IF takes_draw(cfg, current_radius) THEN u ELSE NoDraw,
                         !.was_hidden = ~dart.is_visible,
                         !.used = TRUE]
        d3 == IF should_hide(cfg, current_radius, u) THEN set_visibility(d2, FALSE) ELSE d2
    IN embed(d3)

\* variant: every dart with a k-point is listed, hidden or not
RECURSIVE AnnotateFrom_unfiltered(_, _)
AnnotateFrom_unfiltered(darts, i) ==
    IF i > Len(darts) THEN <<>>
    ELSE (IF darts[i].k_point
          THEN << [dart_index |-> i - 1, world |-> darts[i].k_location] >>
          ELSE <<>>) \o AnnotateFrom_unfiltered(darts, i + 1)

\* the loop over enumerate(spawned_darts) of annotate: a dart with a k-point whose
\* hide_render is False gets an entry with its position in the pool
RECURSIVE AnnotateFrom(_, _)
AnnotateFrom(darts, i) ==
    IF i > Len(darts) THEN <<>>
    ELSE (IF darts[i].k_point /\ ~darts[i].k_hide_render
          THEN << [dart_index |-> i - 1, world |-> darts[i].k_location] >>
          ELSE <<>>) \o AnnotateFrom(darts, i + 1)

InitFrames ==
    /\ client = "frames"
    /\ r_tip = DEFAULT_R_TIP
    /\ invalid_intervals = calculate_invalid_intervals(r_tip)
    /\ call = NoCall
    /\ pc = "start"
    /\ sampled = <<0, 0>>
    /\ radius = 0
    /\ angle = 0
    /\ location = NoLocation
    /\ threads = [t \in Threads |-> IdleThread]
    /\ config \in Configs
    /\ template \in [dart : BOOLEAN, k : BOOLEAN]
    /\ spawned_darts = spawn_dart_pool(clear_existing_darts(<<>>), config, template)
    /\ frame = IdleFrame
    /\ labels = NoLabels

\* a property of the panel is changed between two calls: the configuration is
\* rebuilt from the properties and replaced
SetConfig ==
    /\ frame.pc \in {"idle", "done"}
    /\ \E cfg \in Configs :
          /\ \/ /\ cfg.num_darts # config.num_darts
                /\ cfg.allow_darts_outside_board = config.allow_darts_outside_board
                /\ cfg.bouncer_probability = config.bouncer_probability
             \/ /\ cfg.num_darts = config.num_darts
                /\ cfg.allow_darts_outside_board # config.allow_darts_outside_board
                /\ cfg.bouncer_probability = config.bouncer_probability
             \/ /\ cfg.num_darts = config.num_darts
                /\ cfg.allow_darts_outside_board = config.allow_darts_outside_board
                /\ cfg.bouncer_probability # config.bouncer_probability
          /\ config' = cfg
    /\ frame' = IdleFrame
    /\ UNCHANGED <<template, spawned_darts, labels>>
    /\ UNCHANGED <<threads, client, r_tip, invalid_intervals, call, pc, sampled, radius, angle, location>>

\* randomize() up to the loop: the size check, and on a mismatch clear and respawn
RandomizeBegin ==
    /\ frame.pc \in {"idle", "done"}
    /\ LET mismatch == Len(spawned_darts) # config.num_darts
       IN /\ spawned_darts' =
                IF mismatch
                THEN spawn_dart_pool(clear_existing_darts(spawned_darts), config, template)
                ELSE spawned_darts
          /\ frame' = [pc |-> "loop", i |-> 1, mismatch |-> mismatch]
    /\ labels' = NoLabels
    /\ UNCHANGED <<config, template>>
    /\ UNCHANGED <<threads, client, r_tip, invalid_intervals, call, pc, sampled, radius, angle, location>>

\* one turn of: for i, dart in enumerate(self.spawned_darts)
RandomizeDart ==
    /\ frame.pc = "loop"
    /\ frame.i <= Len(spawned_darts)
    /\ \E draw \in ThrowDraws, u \in BouncerDraws :
          spawned_darts' = [spawned_darts EXCEPT
                               ![frame.i] = randomize_dart(spawned_darts[frame.i], config, draw, u)]
    /\ frame' = [frame EXCEPT !.i = frame.i + 1]
    /\ UNCHANGED <<config, template, labels>>
    /\ UNCHANGED <<threads, client, r_tip, invalid_intervals, call, pc, sampled, radius, angle, location>>

\* the loop is exhausted, randomize() returns
RandomizeEnd ==
    /\ frame.pc = "loop"
    /\ frame.i > Len(spawned_darts)
    /\ frame' = [frame EXCEPT !.pc = "done"]
    /\ UNCHANGED <<config, template, spawned_darts, labels>>
    /\ UNCHANGED <<threads, client, r_tip, invalid_intervals, call, pc, sampled, radius, angle, location>>

\* annotate() after the render of the frame: data["darts"] is built and written
Annotate ==
    /\ frame.pc \in {"idle", "done"}
    /\ labels' = [written |-> TRUE, darts |-> AnnotateFrom(spawned_darts, 1)]
    /\ UNCHANGED <<config, template, spawned_darts, frame>>
    /\ UNCHANGED <<threads, client, r_tip, invalid_intervals, call, pc, sampled, radius, angle, location>>

NextFrames ==
    \/ SetConfig
    \/ RandomizeBegin
    \/ RandomizeDart
    \/ RandomizeEnd
    \/ Annotate

SpecFrames == InitFrames /\ [][NextFrames]_vars

(***************************************************************************)
(* Vocabulary of the properties.                                           *)
(***************************************************************************)
\* r_mm is strictly inside the interval iv
Inside(iv, r_mm) == iv[1] < r_mm /\ r_mm < iv[2]

\* index of the first interval in scan order that strictly contains r_mm, 0 if none
FirstMatch(r_mm) ==
    IF \E i \in 1..Len(invalid_intervals) : Inside(invalid_intervals[i], r_mm)
    THEN CHOOSE i \in 1..Len(invalid_intervals) :
            /\ Inside(invalid_intervals[i], r_mm)
            /\ \A j \in 1..(i - 1) : ~Inside(invalid_intervals[j], r_mm)
    ELSE 0

\* v is the boundary of iv that is nearer to r_mm (either one when both are equally near)
NearerBoundary(iv, r_mm, v) ==
    /\ v \in {iv[1], iv[2]}
    /\ Abs(v - r_mm) <= Abs(iv[1] - r_mm)
    /\ Abs(v - r_mm) <= Abs(iv[2] - r_mm)

PairwiseDisjoint ==
    \A i, j \in 1..Len(invalid_intervals) :
        i < j => invalid_intervals[i][2] <= invalid_intervals[j][1]

\* the radial wires: odd multiples of pi/20
WireK == 30
Wires == {((2 * k + 1) * MathPi) \div 20 : k \in -WireK..WireK}

RadiusCallDone == call.op = "validate_radius"
AngleCallDone == call.op = "validate_angle"
CallRmm == call.radius_m * 1000
ResultRmm == call.result * 1000
IsDefaultLayout == r_tip = 110000

\* C1: with the default layout, the (radius, angle) pair used for the dart position
\* has a radius outside all six invalid intervals and, when the radius is inside
\* [15.8, 180.0] mm, an angle at least asin(1.7 / radius_mm) away from every radial wire.
C1_PlacementClearOfWires ==
    (client = "ThrowRandomizer" /\ pc = "placed") =>
        /\ \A i \in 1..6 : ~Inside(invalid_intervals[i], radius * 1000)
        /\ (1580000 <= radius * 1000 /\ radius * 1000 <= 18000000) =>
              \A w \in Wires : Abs(angle - w) >= asin(170000, radius * 1000)

\* a dart whose sampled radius was inside a wire zone and whose sampled angle was too
\* near a radial wire has been placed
C1_Witness ==
    /\ client = "ThrowRandomizer"
    /\ pc = "placed"
    /\ sampled[1] # radius
    /\ sampled[2] # angle
    /\ location # NoLocation

\* C2: when some interval strictly contains r_mm, validate_radius returns the nearer
\* boundary of the FIRST such interval in scan order; validate_radius(0.0159) with the
\* default layout returns 0.0148.
C2_SnapsToFirstMatch ==
    RadiusCallDone =>
        /\ FirstMatch(CallRmm) # 0 =>
              NearerBoundary(invalid_intervals[FirstMatch(CallRmm)], CallRmm, ResultRmm)
        /\ (IsDefaultLayout /\ call.radius_m = 1590) => call.result = 1480

\* a radius that lies in two overlapping intervals at once has been validated
C2_Witness ==
    /\ RadiusCallDone
    /\ FirstMatch(CallRmm) = 1
    /\ Inside(invalid_intervals[2], CallRmm)
    /\ call.result # call.radius_m

\* C3 as stated: a corrected radius is not strictly inside the interval that matched
\* nor inside any interval earlier in the scan order.
C3_Original ==
    (RadiusCallDone /\ call.result # call.radius_m) =>
        \A j \in 1..FirstMatch(CallRmm) : ~Inside(invalid_intervals[j], ResultRmm)

\* C3 amended: a corrected radius is not strictly inside the interval that matched;
\* it is outside every earlier interval too when it was snapped to the end of the
\* matching interval or when the six intervals are pairwise disjoint.
C3_OutsideMatchedInterval ==
    (RadiusCallDone /\ call.result # call.radius_m) =>
        LET m == FirstMatch(CallRmm)
        IN /\ m # 0
           /\ ~Inside(invalid_intervals[m], ResultRmm)
           /\ (PairwiseDisjoint \/ ResultRmm = invalid_intervals[m][2]) =>
                 \A j \in 1..m : ~Inside(invalid_intervals[j], ResultRmm)

\* a radius matched by a later interval than the first has been corrected
C3_Witness ==
    /\ RadiusCallDone
    /\ call.result # call.radius_m
    /\ FirstMatch(CallRmm) >= 2

\* C4 as stated: for each of the six intervals (s, e) and every r_mm strictly inside
\* it, the result is the nearer of s and e and is not strictly inside (s, e).
C4_Original ==
    RadiusCallDone =>
        \A i \in 1..6 :
            Inside(invalid_intervals[i], CallRmm) =>
                /\ NearerBoundary(invalid_intervals[i], CallRmm, ResultRmm)
                /\ ~Inside(invalid_intervals[i], ResultRmm)

\* C4 amended: the same for every r_mm strictly inside (s, e) that is not strictly
\* inside an interval earlier in the scan order.
C4_EachIntervalSnaps ==
    RadiusCallDone =>
        \A i \in 1..6 :
            (/\ Inside(invalid_intervals[i], CallRmm)
             /\ \A j \in 1..(i - 1) : ~Inside(invalid_intervals[j], CallRmm)) =>
                /\ NearerBoundary(invalid_intervals[i], CallRmm, ResultRmm)
                /\ ~Inside(invalid_intervals[i], ResultRmm)

\* a radius inside the sixth interval only has been validated
C4_Witness ==
    /\ RadiusCallDone
    /\ FirstMatch(CallRmm) = 6
    /\ ResultRmm = invalid_intervals[6][1]

\* r_mm is strictly inside its first matching interval, equally far from both ends
ExactTie ==
    /\ RadiusCallDone
    /\ FirstMatch(CallRmm) # 0
    /\ LET iv == invalid_intervals[FirstMatch(CallRmm)]
       IN CallRmm - iv[1] = iv[2] - CallRmm

C6_IntervalsAsTabulated ==
    /\ invalid_intervals =
          << <<635000 - r_tip, 635000 + 120000 + r_tip>>,
             <<1590000 - r_tip, 1590000 + 120000 + r_tip>>,
             <<9740000 - 100000 - r_tip, 9740000 + r_tip>>,
             <<10740000 - 100000 - r_tip, 10740000 + r_tip>>,
             <<16000000 - 100000 - r_tip, 16000000 + r_tip>>,
             <<17000000 - 100000 - r_tip, 17000000 + r_tip>> >>
    /\ \A i \in 1..6 : invalid_intervals[i][1] < invalid_intervals[i][2]
    /\ \A i \in 1..5 : invalid_intervals[i][1] < invalid_intervals[i + 1][1]

\* a layout has been constructed with a tip radius of 8 mm
C6_Witness ==
    /\ r_tip = 800000
    /\ invalid_intervals[1] = <<-165000, 1555000>>
    /\ invalid_intervals[6] = <<16100000, 17800000>>

\* C7: a radius that is not strictly inside any of the six intervals (on a boundary,
\* negative, beyond the board) is returned unchanged; 50 mm stays 50 mm.
C7_ValidRadiusUnchanged ==
    RadiusCallDone =>
        /\ (\A i \in 1..6 : ~Inside(invalid_intervals[i], CallRmm)) =>
              call.result = call.radius_m
        /\ (IsDefaultLayout /\ call.radius_m = 5000) => call.result = 5000

\* a negative radius outside all intervals has been validated
C7_Witness ==
    /\ RadiusCallDone
    /\ call.radius_m < 0
    /\ \A i \in 1..6 : ~Inside(invalid_intervals[i], CallRmm)

\* the twelve interval boundaries of the layout (mm)
Boundaries == {invalid_intervals[i][b] : i \in 1..6, b \in 1..2}

\* C8: with the default layout every interval boundary is returned unchanged, and
\* validate_radius(validate_radius(r)) = validate_radius(r).
C8_RadiusIdempotent ==
    (RadiusCallDone /\ IsDefaultLayout) =>
        /\ CallRmm \in Boundaries => call.result = call.radius_m
        /\ call.reapplied => call.again = call.result

\* a radius that the first call snapped has gone through validate_radius again
C8_Witness ==
    /\ RadiusCallDone
    /\ IsDefaultLayout
    /\ call.reapplied
    /\ call.result # call.radius_m
    /\ ResultRmm \in Boundaries

OnWire(a) == a \in Wires
AtGateEnd == CallRmm \in {1580000, 18000000}

\* C9 as stated: outside [15.8, 180.0] mm the angle is returned unchanged; at exactly
\* 15.8 and 180.0 an angle exactly on a wire is changed, for any layout.
C9_Original ==
    AngleCallDone =>
        /\ (CallRmm < 1580000 \/ CallRmm > 18000000) => call.result = call.angle_rad
        /\ (AtGateEnd /\ OnWire(call.angle_rad)) => call.result # call.angle_rad

\* C9 amended: the same, the change at exactly 15.8 and 180.0 holding for layouts
\* with 0.6 + tip_radius < radius_mm; otherwise the angle is returned unchanged there.
C9_GateIsClosedInterval ==
    AngleCallDone =>
        /\ (CallRmm < 1580000 \/ CallRmm > 18000000) => call.result = call.angle_rad
        /\ (AtGateEnd /\ OnWire(call.angle_rad)) =>
              IF 60000 + r_tip < CallRmm
              THEN call.result # call.angle_rad
              ELSE call.result = call.angle_rad

\* an angle exactly on a wire has been validated at exactly 180.0 mm
C9_Witness ==
    /\ AngleCallDone
    /\ CallRmm = 18000000
    /\ OnWire(call.angle_rad)
    /\ call.result # call.angle_rad

\* C10: with the default layout and 15.8 <= radius_mm <= 180.0 the returned angle is at
\* least asin(1.7 / radius_mm) away from every radial wire, and an angle exactly on a
\* wire ends exactly that far from it.
C10_AngleClearance ==
    (AngleCallDone /\ IsDefaultLayout /\ 1580000 <= CallRmm /\ CallRmm <= 18000000) =>
        LET dtheta == asin(170000, CallRmm)
        IN /\ \A w \in Wires : Abs(call.result - w) >= dtheta
           /\ OnWire(call.angle_rad) => Abs(call.result - call.angle_rad) = dtheta

\* a negative angle just below a wire has been pushed away from it
C10_Witness ==
    /\ AngleCallDone
    /\ IsDefaultLayout
    /\ 1580000 <= CallRmm /\ CallRmm <= 18000000
    /\ call.angle_rad < 0
    /\ call.result < call.angle_rad

\* the wire check of validate_angle is reached: radius in the gate, margin below it
WireCheckReached == 1580000 <= CallRmm /\ CallRmm <= 18000000 /\ 60000 + r_tip < CallRmm
\* dtheta of the call, asin((0.6 + tip_radius) / radius_mm)
CallDtheta == asin(60000 + r_tip, CallRmm)
\* m = (angle + pi/20) mod (2*pi/20) and the distance to the nearer wire
CallM == (call.angle_rad + 15708) % 31416
CallDist == IF CallM <= 31416 - CallM THEN CallM ELSE 31416 - CallM

\* C11: when dist < dtheta the result is angle + (dtheta - dist) if m < pi/20 and
\* angle - (dtheta - dist) otherwise; the result never differs from the input by more
\* than dtheta, and the half-segment shift is not part of the result.
C11_CorrectionRule ==
    (AngleCallDone /\ WireCheckReached) =>
        LET dtheta == CallDtheta
        IN /\ CallDist < dtheta =>
                 call.result = IF CallM < 15708
                               THEN call.angle_rad + (dtheta - CallDist)
                               ELSE call.angle_rad - (dtheta - CallDist)
           /\ Abs(call.result - call.angle_rad) <= dtheta

\* an angle nearer to the upper wire of its segment has been pushed down
C11_Witness ==
    /\ AngleCallDone
    /\ WireCheckReached
    /\ CallDist < CallDtheta
    /\ CallDist > 0
    /\ CallM > 15708
    /\ call.result < call.angle_rad

\* C12: an angle at least dtheta away from the nearest radial wire is returned
\* unchanged, for any layout and radius; with the default layout and a radius in
\* [15.8, 180.0] mm every segment centre k * 2*pi/20 is returned unchanged.
C12_ValidAngleUnchanged ==
    AngleCallDone =>
        /\ WireCheckReached =>
              LET dtheta == CallDtheta
              IN (\A w \in Wires : Abs(call.angle_rad - w) >= dtheta) =>
                    call.result = call.angle_rad
        /\ (IsDefaultLayout /\ 1580000 <= CallRmm /\ CallRmm <= 18000000
              /\ call.angle_rad % 31416 = 0) =>
              call.result = call.angle_rad

\* a negative angle that is neither a segment centre nor too near a wire has been validated
C12_Witness ==
    /\ AngleCallDone
    /\ WireCheckReached
    /\ call.angle_rad < 0
    /\ call.angle_rad % 31416 # 0
    /\ LET dtheta == CallDtheta
       IN \A w \in Wires : Abs(call.angle_rad - w) >= dtheta
    /\ call.result = call.angle_rad

\* C13: validate_angle(r, a + k * 2*pi/20) = validate_angle(r, a) + k * 2*pi/20 for
\* any layout, radius, angle a and integer k of either sign.
C13_Periodic ==
    (AngleCallDone /\ call.reapplied) =>
        call.again = call.result + call.shift * 31416

\* a corrected negative angle has been validated again, moved up past 2*pi
C13_Witness ==
    /\ AngleCallDone
    /\ call.reapplied
    /\ call.angle_rad < 0
    /\ call.result # call.angle_rad
    /\ call.shift > 0
    /\ call.angle_rad + call.shift * 31416 > 0
    /\ call.again = call.result + call.shift * 31416

\* C14: validate_angle never raises: the arcsine is evaluated only with
\* 0 <= margin_mm / radius_mm < 1, and a radius in the gate with
\* margin_mm = 0.6 + tip_radius >= radius_mm returns the angle unchanged.
C14_NeverRaises ==
    AngleCallDone =>
        /\ ~call.raised
        /\ (1580000 <= CallRmm /\ CallRmm <= 18000000 /\ 60000 + r_tip >= CallRmm) =>
              call.result = call.angle_rad
        /\ call.result # call.angle_rad =>
              (0 <= 60000 + r_tip /\ 60000 + r_tip < CallRmm)

\* an angle on a wire has been returned unchanged because the margin is not below the radius
C14_Witness ==
    /\ AngleCallDone
    /\ 1580000 <= CallRmm /\ CallRmm <= 18000000
    /\ 60000 + r_tip >= CallRmm
    /\ OnWire(call.angle_rad)
    /\ call.result = call.angle_rad
    /\ ~call.raised

\* the sampled radius is strictly inside the outer-bull zone (14.8, 18.2) mm
SampledInOuterBullZone == 1480000 < sampled[1] * 1000 /\ sampled[1] * 1000 < 1820000

\* C15: for each dart validate_radius is applied to the sampled radius first, then
\* validate_angle is called with the CORRECTED radius, and the position is computed
\* from the corrected radius and the corrected angle; so a radius sampled in the
\* outer-bull zone and snapped down to 14.8 mm leaves the angle uncorrected, and one
\* snapped up to 18.2 mm has its angle checked.
C15_RadiusBeforeAngle ==
    client = "ThrowRandomizer" =>
        /\ pc = "sampled" => (radius = sampled[1] /\ angle = sampled[2])
        /\ pc = "radius_validated" =>
              /\ angle = sampled[2]
              /\ \A i \in 1..6 : ~Inside(invalid_intervals[i], radius * 1000)
              /\ SampledInOuterBullZone => radius \in {1480, 1820}
        /\ pc \in {"angle_validated", "placed"} =>
              /\ (radius * 1000 < 1580000 \/ radius * 1000 > 18000000) => angle = sampled[2]
              /\ SampledInOuterBullZone =>
                    \/ radius = 1480 /\ angle = sampled[2]
                    \/ /\ radius = 1820
                       /\ LET dtheta == asin(170000, 1820000)
                          IN \A w \in Wires : Abs(angle - w) >= dtheta
        /\ pc = "placed" =>
              location = <<(radius * cos(angle)) \div 10000, (radius * sin(angle)) \div 10000, 0>>

\* a dart sampled at 16 mm on a wire has been snapped down to 14.8 mm and placed with
\* its angle still on the wire
C15_Witness ==
    /\ client = "ThrowRandomizer"
    /\ pc = "placed"
    /\ SampledInOuterBullZone
    /\ radius = 1480
    /\ OnWire(sampled[2])
    /\ angle = sampled[2]

\* C16: no call of validate_radius or validate_angle changes r_tip or the six stored
\* intervals: in every step both keep their value, so every call works with the
\* intervals computed at construction.
C16_LayoutImmutable ==
    [][/\ r_tip' = r_tip
       /\ invalid_intervals' = invalid_intervals
       /\ invalid_intervals' = calculate_invalid_intervals(r_tip')]_vars

\* a second call has been made on a layout of tip radius 8 mm, whose intervals are as constructed
C16_Witness ==
    /\ RadiusCallDone
    /\ call.reapplied
    /\ call.result # call.radius_m
    /\ r_tip = 800000
    /\ invalid_intervals[2] = <<790000, 2510000>>

\* C18: a call applies at most one snap: the result is the input, or a boundary of
\* the first interval in scan order that strictly contains the input; no later
\* interval is applied to it.
C18_SinglePass ==
    RadiusCallDone =>
        IF FirstMatch(CallRmm) = 0
        THEN call.result = call.radius_m
        ELSE ResultRmm \in {invalid_intervals[FirstMatch(CallRmm)][1],
                            invalid_intervals[FirstMatch(CallRmm)][2]}

\* a snapped radius that lies strictly inside a later interval has been returned
C18_Witness ==
    /\ RadiusCallDone
    /\ FirstMatch(CallRmm) # 0
    /\ \E j \in (FirstMatch(CallRmm) + 1)..6 : Inside(invalid_intervals[j], ResultRmm)

\* C19: the default layout has the intervals (5.25, 8.65), (14.8, 18.2), (95.3, 98.5),
\* (105.3, 108.5), (157.9, 161.1), (167.9, 171.1), pairwise disjoint, and no value
\* returned by validate_radius is strictly inside any of them.
C19_DefaultLayoutSafe ==
    IsDefaultLayout =>
        /\ invalid_intervals = << <<525000, 865000>>, <<1480000, 1820000>>,
                                  <<9530000, 9850000>>, <<10530000, 10850000>>,
                                  <<15790000, 16110000>>, <<16790000, 17110000>> >>
        /\ \A i, j \in 1..6 :
              i # j => (\/ invalid_intervals[i][2] <= invalid_intervals[j][1]
                        \/ invalid_intervals[j][2] <= invalid_intervals[i][1])
        /\ RadiusCallDone => \A i \in 1..6 : ~Inside(invalid_intervals[i], ResultRmm)

\* 160 mm, inside (157.9, 161.1), has been snapped to 161.1 mm with the default layout
C19_Witness ==
    /\ IsDefaultLayout
    /\ RadiusCallDone
    /\ call.radius_m = 16000
    /\ call.result = 16110

\* index of the wire-to-wire segment an angle lies in (a wire belongs to the segment above it)
SegmentOf(a) == (a + 15708) \div 31416
\* an angle has been corrected
AngleCorrected == AngleCallDone /\ WireCheckReached /\ call.result # call.angle_rad
\* the corrected angle is in the segment of the input, at least dtheta from both its wires
NoOvershoot(dtheta) ==
    /\ SegmentOf(call.result) = SegmentOf(call.angle_rad)
    /\ call.result - (SegmentOf(call.angle_rad) * 31416 - 15708) >= dtheta
    /\ (SegmentOf(call.angle_rad) * 31416 + 15708) - call.result >= dtheta

\* C20 as stated: for every tip radius, a corrected angle stays in the segment of the
\* input and is at least dtheta away from both wires of that segment.
C20_Original ==
    AngleCorrected => NoOvershoot(CallDtheta)

\* C20 amended: the same whenever dtheta <= pi/20, half a segment (always so for the
\* default layout, where dtheta <= asin(1.7 / 15.8)).
C20_NoOvershoot ==
    AngleCorrected =>
        LET dtheta == CallDtheta
        IN /\ dtheta <= 15708 => NoOvershoot(dtheta)
           /\ IsDefaultLayout => dtheta <= 15708

\* an angle has been corrected on a layout of tip radius 4 mm at a radius where
\* dtheta is below half a segment
C20_Witness ==
    /\ AngleCorrected
    /\ r_tip = 400000
    /\ CallDtheta <= 15708
    /\ CallDist > 0

\* the value the call of a thread returns when it runs alone on the layout as constructed
RunAlone(th) ==
    IF th.op = "validate_radius"
    THEN validate_radius(calculate_invalid_intervals(r_tip), th.radius_m)
    ELSE validate_angle(r_tip, th.radius_m, th.angle_rad)

\* C17: under every interleaving of the calls of several threads on one shared layout,
\* each finished call has returned the value it returns when run alone, and the
\* shared intervals are still those of construction.
C17_ThreadsDoNotInterfere ==
    /\ \A t \in Threads : threads[t].pc = "done" => threads[t].result = RunAlone(threads[t])
    /\ invalid_intervals = calculate_invalid_intervals(r_tip)

\* a validate_radius call that snapped and a validate_angle call that corrected have
\* both finished, on two threads, while neither result has been taken yet
C17_Witness ==
    /\ threads[1].pc = "done"
    /\ threads[1].op = "validate_radius"
    /\ threads[1].result # threads[1].radius_m
    /\ threads[2].pc = "done"
    /\ threads[2].op = "validate_angle"
    /\ threads[2].result # threads[2].angle_rad

\* the angle of the call is in [0, 2*pi)
AngleInRange(a) == 0 <= a /\ a < 2 * MathPi

\* C21: with the default layout, for every radius and every input angle in [0, 2*pi)
\* the returned angle is in [0, 2*pi) too, for a direct call as for the angle drawn
\* by _randomize_transform; the nearest wires to the ends of the range are at pi/20
\* and 39*pi/20 and the correction is smaller than pi/20.
C21_RangePreserved ==
    /\ (AngleCallDone /\ IsDefaultLayout /\ AngleInRange(call.angle_rad)) =>
          /\ AngleInRange(call.result)
          /\ WireCheckReached => CallDtheta < 15708
    /\ (client = "ThrowRandomizer" /\ pc \in {"angle_validated", "placed"}) =>
          (AngleInRange(sampled[2]) /\ AngleInRange(angle))

\* an angle in the last segment, just above the wire at 39*pi/20, has been pushed up
\* at the inner end of the gate, where the correction is largest
C21_Witness ==
    /\ AngleCallDone
    /\ IsDefaultLayout
    /\ CallRmm = 1580000
    /\ call.angle_rad >= 39 * 15708
    /\ AngleInRange(call.angle_rad)
    /\ call.result > call.angle_rad

\* a returned angle has been validated a second time with the same radius
AngleReapplied == call.op = "validate_angle_again"

WireOf(i) ==
    IF i = 1 THEN D_INNER_BULL_WIRE
    ELSE IF i = 2 THEN D_OUTER_BULL_WIRE
    ELSE IF i \in {3, 4} THEN D_TREBLE_WIRE
    ELSE D_DOUBLE_WIRE

\* how far validate_radius moved the radius (mm)
Displacement == Abs(ResultRmm - CallRmm)

\* C23: for any layout with tip_radius >= 0 and any input, |result_mm - input_mm| is
\* at most half the width of the matching interval, (wire_thickness + 2*tip_radius)/2,
\* and zero when no interval matches; with the default layout the radius never moves
\* by more than 1.7 mm at the bull wires or 1.6 mm at the treble and double wires.
C23_BoundedDisplacement ==
    RadiusCallDone =>
        LET m == FirstMatch(CallRmm)
        IN /\ m = 0 => Displacement = 0
           /\ m # 0 =>
                 /\ invalid_intervals[m][2] - invalid_intervals[m][1] = WireOf(m) + 2 * r_tip
                 /\ 2 * Displacement <= WireOf(m) + 2 * r_tip
           /\ IsDefaultLayout =>
                 Displacement <= IF m \in {1, 2} THEN 170000 ELSE 160000

\* the centre of the inner-bull interval of the default layout, 6.95 mm, has been
\* moved by the full 1.7 mm
C23_Witness ==
    /\ RadiusCallDone
    /\ IsDefaultLayout
    /\ FirstMatch(CallRmm) = 1
    /\ Displacement = 170000

\* C24: for a layout constructed with any tip_radius >= 0, every non-negative input
\* radius yields a non-negative returned radius.
C24_SignPreserved ==
    (RadiusCallDone /\ r_tip >= 0 /\ call.radius_m >= 0) => call.result >= 0

\* a dart is hidden: is_visible is False and the hierarchy is hidden in the render
DartHidden(d) == ~d.is_visible /\ d.hide_render
\* a dart is shown: is_visible is True, the hierarchy and the k-point are not hidden
DartShown(d) == d.is_visible /\ ~d.hide_render /\ ~d.k_hide_render
\* the location _randomize_transform gave the dart: the k-point keeps it when the
\* dart has been moved into the board
PlacedLocation(d) == IF d.k_point THEN d.k_location ELSE d.location
\* randomize() has returned and nothing has been changed since
RandomizeDone == frame.pc = "done"

\* C25: when randomize() completes, every dart of the pool is hidden if and only if
\* (its placed radius is > 0.225 m and allow_darts_outside_board is False) or (that
\* rule did not hide it, bouncer_probability > 0 and the bouncer draw was below
\* bouncer_probability); a dart that is not hidden is shown, whatever an earlier
\* frame did to it, because visibility is reset at the start of each frame.
C25_VisibilityPerFrame ==
    RandomizeDone =>
        \A i \in 1..Len(spawned_darts) :
            LET d == spawned_darts[i]
                placed_radius == XYLength(PlacedLocation(d))
                outside == placed_radius > 22500 /\ ~config.allow_darts_outside_board
                bouncer == /\ ~outside
                           /\ config.bouncer_probability > 0
                           /\ d.draw # NoDraw
                           /\ d.draw < config.bouncer_probability
            IN /\ d.used
               /\ placed_radius = d.current_radius
               /\ DartHidden(d) <=> (outside \/ bouncer)
               /\ ~DartHidden(d) => DartShown(d)

\* a frame has completed in which a dart hidden by the previous frame is shown again
\* and another dart, inside the board, is hidden by the bouncer rule
C25_Witness ==
    /\ RandomizeDone
    /\ \E i, j \in 1..Len(spawned_darts) :
          /\ spawned_darts[i].was_hidden
          /\ DartShown(spawned_darts[i])
          /\ DartHidden(spawned_darts[j])
          /\ spawned_darts[j].current_radius <= 22500
          /\ spawned_darts[j].draw # NoDraw

\* C26: provided the template dart exists, after every randomize() call the pool
\* holds exactly config.num_darts darts, whatever calls and changes of
\* config.num_darts came before; when the size differed at the start of the call,
\* the whole pool was cleared and respawned before any dart is randomized: the
\* darts the loop has not reached yet are new ones.
C26_PoolSize ==
    template.dart =>
        /\ frame.pc \in {"loop", "done"} => Len(spawned_darts) = config.num_darts
        /\ (frame.pc \in {"loop", "done"} /\ frame.mismatch) =>
              \A i \in 1..Len(spawned_darts) :
                  /\ spawned_darts[i].used <=> i < frame.i
                  /\ i >= frame.i => spawned_darts[i] = NewDart(template.k)

\* a call has completed that found a pool of another size than the configuration
\* asks for and left two darts
C26_Witness ==
    /\ template.dart
    /\ RandomizeDone
    /\ frame.mismatch
    /\ config.num_darts = 2
    /\ Len(spawned_darts) = 2

\* the entries of the list written for the frame that carry the index of pool position i
EntriesOf(i) == {j \in 1..Len(labels.darts) : labels.darts[j].dart_index = i - 1}

\* C27: in every frame a dart that randomize() hid (outside the board or bouncer) has
\* no entry in the "darts" list written by annotate for that frame, and every dart
\* with a k-point that is visible has exactly one entry, whose dart_index is its
\* position in the pool.
C27_HiddenNotAnnotated ==
    labels.written =>
        /\ \A i \in 1..Len(spawned_darts) :
              /\ DartHidden(spawned_darts[i]) => EntriesOf(i) = {}
              /\ (spawned_darts[i].k_point /\ DartShown(spawned_darts[i])) =>
                    Cardinality(EntriesOf(i)) = 1
        /\ \A j \in 1..Len(labels.darts) :
              labels.darts[j].dart_index \in 0..(Len(spawned_darts) - 1)

\* the list of a frame has been written in which the first dart of the pool was
\* hidden and the second was not: its only entry carries dart_index 1
C27_Witness ==
    /\ labels.written
    /\ RandomizeDone
    /\ Len(spawned_darts) >= 2
    /\ spawned_darts[1].k_point
    /\ DartHidden(spawned_darts[1])
    /\ DartShown(spawned_darts[2])
    /\ Len(labels.darts) = 1
    /\ labels.darts[1].dart_index = 1

====
